---- MODULE Spec2Model ----
(***************************************************************************)
(* A model of the `wire` crate: the Target addressing model                *)
(* (src/src/target.rs, src/src/events.rs), the Req / Res / Error envelopes *)
(* (src/src/req.rs, src/src/res.rs, src/src/error.rs) and the bincode      *)
(* encoding of Req.                                                        *)
(*                                                                         *)
(* The crate is a library of value types.  The state machine is a client   *)
(* that holds one Target and calls the crate's operations on it; `call`    *)
(* records the last call (operation, arguments, returned value) until the  *)
(* client drops the returned value.                                        *)
(*                                                                         *)
(* Every record is written with its fields in TLC's normal order, the      *)
(* order in which the field names first occur in this module, so that a    *)
(* record is already in normal form when it is built: TLC's workers share  *)
(* record values and normalise them in place.                              *)
(***************************************************************************)
EXTENDS Integers, Sequences, FiniteSets, TLC

\* ------------------------------------------------------------------ bounds
\* User ids are the nil uuid and MaxUser other uuids.
MaxUser == 2
\* Session ids are 0..MaxSession.
MaxSession == 1
\* Vec<Target> / Vec<AuthTarget> inputs have at most MaxFew elements.
MaxFew == 2
\* Payloads (actions, events, errors) are 0..MaxPayload.
MaxPayload == 1
\* Correlation ids are 0..MaxCorr.
MaxCorr == 1
\* Timestamps (ms) read from the clock are 0..MaxTime.
MaxTime == 1

\* ------------------------------------------------------------- identifiers
\* A uuid is its 16 bytes (uuid::Uuid wraps [u8; 16]).
UuidLen == 16

\* A uuid whose first and last byte are n, the others 0.
MkUuid(n) == <<n, 0, 0, 0, 0, 0, 0, 0, 0, 0, 0, 0, 0, 0, 0, n>>

\* pub const ANON_USER_ID: UserId = uuid::Uuid::nil();
ANON_USER_ID == <<0, 0, 0, 0, 0, 0, 0, 0, 0, 0, 0, 0, 0, 0, 0, 0>>

UserIds == {ANON_USER_ID} \cup {MkUuid(n) : n \in 1..MaxUser}

SessionIds == 0..MaxSession

\* ------------------------------------------------------------ target types
\* enum AuthTarget { All(UserId), Specific(UserId, SessionId) }
All(user_id) == [user_id |-> user_id, tag |-> "All"]

Specific(user_id, session_id) ==
    [user_id |-> user_id, tag |-> "Specific", session_id |-> session_id]

AuthTargetValues ==
    {All(u) : u \in UserIds}
        \cup {Specific(u, s) : u \in UserIds, s \in SessionIds}

\* enum Target { Anon(SessionId), Auth(AuthTarget) }
Anon(session_id) == [tag |-> "Anon", session_id |-> session_id]

Auth(auth) == [tag |-> "Auth", auth |-> auth]

TargetValues ==
    {Anon(s) : s \in SessionIds} \cup {Auth(a) : a \in AuthTargetValues}

\* AuthTarget::id
AuthTargetId(a) ==
    CASE a.tag = "Specific" -> a.user_id
      [] a.tag = "All" -> a.user_id

\* Into<Target> for AuthTarget applying the sentinel deduction of Target::new.
AuthTargetIntoTarget_Deducing(a) ==
    IF a.user_id = ANON_USER_ID /\ a.tag = "Specific"
    THEN [tag |-> "Anon", session_id |-> a.session_id]
    ELSE [tag |-> "Auth", auth |-> a]

\* impl Into<Target> for AuthTarget
AuthTargetIntoTarget(a) == Auth(a)

\* Target::new without the sentinel check.
TargetNew_NoSentinel(user_id, session_id) ==
    Auth(Specific(user_id, session_id))

\* Target::new
TargetNew(user_id, session_id) ==
    IF user_id = ANON_USER_ID
    THEN Anon(session_id)
    ELSE Auth(Specific(user_id, session_id))

\* Target::weak_eq as derived equality.
WeakEq_Strict(self, other) == self = other

\* Target::weak_eq with a one-sided arm comparing an Auth target's id with
\* the other target's id().
WeakEq_OneSided(self, other) ==
    CASE self.tag = "Anon" /\ other.tag = "Anon" ->
            self.session_id = other.session_id
      [] self.tag = "Auth" ->
            AuthTargetId(self.auth)
                = (IF other.tag = "Anon" THEN ANON_USER_ID
                   ELSE AuthTargetId(other.auth))
      [] OTHER -> FALSE

\* Target::weak_eq comparing the targets' id(): the anonymous sentinel for a
\* target that is not Auth.
WeakEq_ById(self, other) ==
    (IF self.tag = "Auth" THEN AuthTargetId(self.auth) ELSE ANON_USER_ID)
        = (IF other.tag = "Auth" THEN AuthTargetId(other.auth)
           ELSE ANON_USER_ID)

\* Target::weak_eq
WeakEq(self, other) ==
    CASE self.tag = "Anon" /\ other.tag = "Anon" ->
            self.session_id = other.session_id
      [] self.tag = "Auth" /\ other.tag = "Auth" ->
            AuthTargetId(self.auth) = AuthTargetId(other.auth)
      [] OTHER -> FALSE

\* Target::id
TargetId(self) ==
    CASE self.tag = "Anon" -> ANON_USER_ID
      [] self.tag = "Auth" -> AuthTargetId(self.auth)

\* Target::is_anon
IsAnon(self) ==
    CASE self.tag = "Anon" -> TRUE
      [] OTHER -> FALSE

\* Target::is_auth
IsAuth(self) ==
    CASE self.tag = "Auth" -> TRUE
      [] OTHER -> FALSE

\* The outcome of a call that panics: no value is returned.
Panic(msg) == [tag |-> "Panic", msg |-> msg]

\* Target::for_all returning an authenticated target as it is.
ForAll_KeepSpecific(self) ==
    CASE self.tag = "Anon" -> Panic("Target::for_all() called on Anon target")
      [] self.tag = "Auth" -> self

\* Target::for_all as a no-op on an Anon target.
ForAll_NoopOnAnon(self) ==
    CASE self.tag = "Anon" -> self
      [] self.tag = "Auth" -> Auth(All(AuthTargetId(self.auth)))

\* Target::for_all
ForAll(self) ==
    CASE self.tag = "Anon" -> Panic("Target::for_all() called on Anon target")
      [] self.tag = "Auth" -> Auth(All(AuthTargetId(self.auth)))

\* impl From<(UserId, SessionId)> for Target
FromTuple(pair) == TargetNew(pair[1], pair[2])

\* -------------------------------------------------------- connection events
\* Connected::new / Disconnected::new / FirstConnected::new
ConnectedNew(user_id, session_id) ==
    [user_id |-> user_id, session_id |-> session_id]

DisconnectedNew(user_id, session_id) ==
    [user_id |-> user_id, session_id |-> session_id]

FirstConnectedNew(user_id, session_id) ==
    [user_id |-> user_id, session_id |-> session_id]

\* From<Connected<M>> without the sentinel check.
FromConnected_NoSentinel(value) ==
    Auth(Specific(value.user_id, value.session_id))

\* impl<M> From<Connected<M>> for Target
FromConnected(value) ==
    IF value.user_id = ANON_USER_ID
    THEN Anon(value.session_id)
    ELSE Auth(Specific(value.user_id, value.session_id))

\* impl<M> From<Disconnected<M>> for Target
FromDisconnected(value) ==
    IF value.user_id = ANON_USER_ID
    THEN Anon(value.session_id)
    ELSE Auth(Specific(value.user_id, value.session_id))

\* impl<M> From<FirstConnected<M>> for Target
FromFirstConnected(value) ==
    IF value.user_id = ANON_USER_ID
    THEN Anon(value.session_id)
    ELSE Auth(Specific(value.user_id, value.session_id))

\* ------------------------------------------------------------------ Targets
\* enum Targets { All, Few(Vec<Target>) }
TargetsAll == [tag |-> "All"]

Few(targets) == [tag |-> "Few", targets |-> targets]

\* #[derive(PartialEq)] on Targets: the same variant, and for Few the same
\* Vec<Target> (same length, equal elements position by position).
TargetsEq(a, b) ==
    CASE a.tag = "All" /\ b.tag = "All" -> TRUE
      [] a.tag = "Few" /\ b.tag = "Few" ->
            /\ Len(a.targets) = Len(b.targets)
            /\ \A i \in 1..Len(a.targets) : a.targets[i] = b.targets[i]
      [] OTHER -> FALSE

\* impl Into<Targets> for Target
TargetIntoTargets(t) == Few(<<t>>)

\* impl Into<Targets> for Vec<Target>
VecTargetIntoTargets(v) == Few(v)

\* impl Into<Targets> for AuthTarget
AuthTargetIntoTargets(a) == Few(<<AuthTargetIntoTarget(a)>>)

\* impl Into<Targets> for Vec<AuthTarget>
VecAuthTargetIntoTargets(v) ==
    Few([i \in 1..Len(v) |-> AuthTargetIntoTarget(v[i])])

\* Vectors of at most MaxFew elements of S.
Vecs(S) == UNION {[1..n -> S] : n \in 0..MaxFew}

\* ---------------------------------------------------------------- envelopes
Payloads == 0..MaxPayload

CorrIds == 0..MaxCorr

Timestamps == 0..MaxTime

\* Req::new (from: the Target `from.into()` gives)
ReqNew(from, action, corrid) ==
    [from |-> from, action |-> action, corrid |-> corrid]

\* impl PartialEq for Req<A>
ReqEq(self, other) ==
    /\ self.from = other.from
    /\ self.action = other.action
    /\ self.corrid = other.corrid

\* Error::new that does not carry the request's correlation id.
ErrorNew_ZeroCorrid(to, error, corrid) ==
    [corrid |-> 0, to |-> to, error |-> error]

\* Error::new (to: the Target `to.into()` gives)
ErrorNew(to, error, corrid) ==
    [corrid |-> corrid, to |-> to, error |-> error]

\* impl PartialEq for Error<E>
ErrorEq(self, other) ==
    /\ self.to = other.to
    /\ self.error = other.error
    /\ self.corrid = other.corrid

\* TimestampedEvent::new; now: chrono::Utc::now().timestamp_millis()
TimestampedEventNew(event, now) == [event |-> event, timestamp |-> now]

\* PartialEq for TimestampedEvent<E> comparing the timestamp too.
TimestampedEventEq_WithTimestamp(self, other) ==
    self.timestamp = other.timestamp /\ self.event = other.event

\* impl PartialEq for TimestampedEvent<E>
TimestampedEventEq(self, other) == self.event = other.event

\* Res::new (targets: the Targets `targets.into()` gives)
ResNew(targets, event, now) ==
    [targets |-> targets, event |-> TimestampedEventNew(event, now)]

\* impl PartialEq for Res<E>
ResEq(self, other) ==
    /\ TargetsEq(self.targets, other.targets)
    /\ TimestampedEventEq(self.event, other.event)

\* ------------------------------------------------------------------ bincode
\* The integer encoding of the bincode configuration the caller passes:
\* variable-length (config::standard()) or fixed-width (config::legacy()),
\* both little-endian.  A byte stream is a sequence of 0..255.
IntEncodings == {"Varint", "Fixint"}

\* A decoder's result: the value and the bytes left, or the DecodeError.
Ok(val, rest) == [val |-> val, rest |-> rest, ok |-> TRUE]

Err(error) == [ok |-> FALSE, err |-> error]

UnexpectedEnd == [kind |-> "UnexpectedEnd"]

InvalidIntegerType == [kind |-> "InvalidIntegerType"]

UnexpectedVariant(type_name, min, max, found) ==
    [kind |-> "UnexpectedVariant", type_name |-> type_name,
     min |-> min, max |-> max, found |-> found]

\* n as `width` little-endian bytes.
RECURSIVE LEBytes(_, _)
LEBytes(n, width) ==
    IF width = 0 THEN <<>> ELSE <<n % 256>> \o LEBytes(n \div 256, width - 1)

\* The number a little-endian byte sequence holds.
RECURSIVE FromLE(_)
FromLE(bytes) ==
    IF bytes = <<>> THEN 0 ELSE bytes[1] + 256 * FromLE(Tail(bytes))

\* Reads `width` bytes as a little-endian unsigned integer.
TakeLE(bytes, width) ==
    IF Len(bytes) < width
    THEN Err(UnexpectedEnd)
    ELSE Ok(FromLE(SubSeq(bytes, 1, width)),
            SubSeq(bytes, width + 1, Len(bytes)))

\* bincode's varint of an unsigned integer: one byte below 251, else a marker
\* byte (251: u16, 252: u32, 253: u64) and the little-endian value.
VarintEncode(n) ==
    CASE n < 251 -> <<n>>
      [] n >= 251 /\ n < 65536 -> <<251>> \o LEBytes(n, 2)
      [] OTHER -> <<252>> \o LEBytes(n, 4)

\* Reads a varint of an unsigned type whose widest marker is max_marker
\* (252 for u32, 253 for u64).
VarintDecode(bytes, max_marker) ==
    IF Len(bytes) = 0
    THEN Err(UnexpectedEnd)
    ELSE CASE bytes[1] < 251 -> Ok(bytes[1], Tail(bytes))
           [] bytes[1] = 251 -> TakeLE(Tail(bytes), 2)
           [] bytes[1] = 252 -> TakeLE(Tail(bytes), 4)
           [] bytes[1] = 253 /\ max_marker >= 253 -> TakeLE(Tail(bytes), 8)
           [] OTHER -> Err(InvalidIntegerType)

\* u8: always one byte.
EncodeU8(n) == <<n>>

DecodeU8(bytes) ==
    IF Len(bytes) = 0 THEN Err(UnexpectedEnd) ELSE Ok(bytes[1], Tail(bytes))

\* u32 (SessionId, and the variant index a derived Encode writes)
EncodeU32(cfg, n) ==
    IF cfg = "Fixint" THEN LEBytes(n, 4) ELSE VarintEncode(n)

DecodeU32(cfg, bytes) ==
    IF cfg = "Fixint" THEN TakeLE(bytes, 4) ELSE VarintDecode(bytes, 252)

\* u64 (the correlation id)
EncodeU64(cfg, n) ==
    IF cfg = "Fixint" THEN LEBytes(n, 8) ELSE VarintEncode(n)

DecodeU64(cfg, bytes) ==
    IF cfg = "Fixint" THEN TakeLE(bytes, 8) ELSE VarintDecode(bytes, 253)

\* i32, the type of an unsuffixed integer literal, for n >= 0: fixed-width as
\* four bytes, variable-length as the varint of its zigzag 2 * n.
EncodeI32(cfg, n) ==
    CASE n >= 0 /\ cfg = "Fixint" -> LEBytes(n, 4)
      [] n >= 0 /\ cfg = "Varint" -> VarintEncode(2 * n)

\* [u8; 16]: the bytes, no length prefix.
EncodeBytes16(bytes) == bytes

DecodeBytes16(bytes) ==
    IF Len(bytes) < UuidLen
    THEN Err(UnexpectedEnd)
    ELSE Ok(SubSeq(bytes, 1, UuidLen), SubSeq(bytes, UuidLen + 1, Len(bytes)))

\* impl bincode::Encode for AuthTarget
AuthTargetEncode(cfg, a) ==
    CASE a.tag = "All" ->
            EncodeI32(cfg, 0) \o EncodeBytes16(a.user_id)
      [] a.tag = "Specific" ->
            EncodeI32(cfg, 1) \o EncodeBytes16(a.user_id)
                \o EncodeU32(cfg, a.session_id)

\* Decode for AuthTarget reading an unknown discriminant as All.
AuthTargetDecode_DefaultAll(cfg, bytes) ==
    LET arm == DecodeU8(bytes) IN
    IF ~arm.ok THEN arm ELSE
    CASE arm.val = 1 ->
            LET user_id == DecodeBytes16(arm.rest) IN
            IF ~user_id.ok THEN user_id ELSE
            LET session_id == DecodeU32(cfg, user_id.rest) IN
            IF ~session_id.ok THEN session_id ELSE
            Ok(Specific(user_id.val, session_id.val), session_id.rest)
      [] OTHER ->
            LET user_id == DecodeBytes16(arm.rest) IN
            IF ~user_id.ok THEN user_id ELSE
            Ok(All(user_id.val), user_id.rest)

\* impl bincode::Decode for AuthTarget
AuthTargetDecode(cfg, bytes) ==
    LET arm == DecodeU8(bytes) IN
    IF ~arm.ok THEN arm ELSE
    CASE arm.val = 0 ->
            LET user_id == DecodeBytes16(arm.rest) IN
            IF ~user_id.ok THEN user_id ELSE
            Ok(All(user_id.val), user_id.rest)
      [] arm.val = 1 ->
            LET user_id == DecodeBytes16(arm.rest) IN
            IF ~user_id.ok THEN user_id ELSE
            LET session_id == DecodeU32(cfg, user_id.rest) IN
            IF ~session_id.ok THEN session_id ELSE
            Ok(Specific(user_id.val, session_id.val), session_id.rest)
      [] OTHER ->
            Err(UnexpectedVariant("wire::target::AuthTarget", 0, 1, arm.val))

\* impl bincode::BorrowDecode for AuthTarget
AuthTargetBorrowDecode(cfg, bytes) ==
    LET arm == DecodeU8(bytes) IN
    IF ~arm.ok THEN arm ELSE
    CASE arm.val = 0 ->
            LET user_id == DecodeBytes16(arm.rest) IN
            IF ~user_id.ok THEN user_id ELSE
            Ok(All(user_id.val), user_id.rest)
      [] arm.val = 1 ->
            LET user_id == DecodeBytes16(arm.rest) IN
            IF ~user_id.ok THEN user_id ELSE
            LET session_id == DecodeU32(cfg, user_id.rest) IN
            IF ~session_id.ok THEN session_id ELSE
            Ok(Specific(user_id.val, session_id.val), session_id.rest)
      [] OTHER ->
            Err(UnexpectedVariant("wire::target::AuthTarget", 0, 1, arm.val))

\* The discriminant bytes the decoders are given run from 0 to MaxArm, and
\* the largest byte.
MaxArm == 3

Arms == 0..MaxArm \cup {255}

\* Byte strings handed to the AuthTarget decoders: nothing, or a discriminant
\* byte followed by nothing, by a user id, or by a user id and a session id.
DecodeInputs(cfg) ==
    {<<>>}
        \cup {<<d>> : d \in Arms}
        \cup {<<d>> \o EncodeBytes16(u) : d \in Arms, u \in UserIds}
        \cup {<<d>> \o EncodeBytes16(u) \o EncodeU32(cfg, s) :
                 d \in Arms, u \in UserIds, s \in SessionIds}

\* #[derive(bincode::Encode)] on Target: the variant index as u32, then the
\* variant's field.
TargetEncode(cfg, t) ==
    CASE t.tag = "Anon" -> EncodeU32(cfg, 0) \o EncodeU32(cfg, t.session_id)
      [] t.tag = "Auth" -> EncodeU32(cfg, 1) \o AuthTargetEncode(cfg, t.auth)

\* #[derive(bincode::Decode)] on Target
TargetDecode(cfg, bytes) ==
    LET variant == DecodeU32(cfg, bytes) IN
    IF ~variant.ok THEN variant ELSE
    CASE variant.val = 0 ->
            LET session_id == DecodeU32(cfg, variant.rest) IN
            IF ~session_id.ok THEN session_id ELSE
            Ok(Anon(session_id.val), session_id.rest)
      [] variant.val = 1 ->
            LET auth == AuthTargetDecode(cfg, variant.rest) IN
            IF ~auth.ok THEN auth ELSE
            Ok(Auth(auth.val), auth.rest)
      [] OTHER -> Err(UnexpectedVariant("Target", 0, 1, variant.val))

\* impl bincode::Encode for Req<A>, with A = u8
ReqEncode(cfg, r) ==
    TargetEncode(cfg, r.from) \o EncodeU8(r.action)

\* impl bincode::Decode for Req<A>, with A = u8
ReqDecode(cfg, bytes) ==
    LET from == TargetDecode(cfg, bytes) IN
    IF ~from.ok THEN from ELSE
    LET action == DecodeU8(from.rest) IN
    IF ~action.ok THEN action ELSE
    LET corrid == DecodeU64(cfg, action.rest) IN
    IF ~corrid.ok THEN corrid ELSE
    Ok([from |-> from.val, action |-> action.val, corrid |-> corrid.val],
       corrid.rest)

\* ---------------------------------------------------------- derive(WireObj)
\* Enum inputs have at most MaxVariants variants.
MaxVariants == 2

\* syn::Field of an enum variant: private visibility; a positional field has
\* no name.
Field(ident, ty) == [ident |-> ident, ty |-> ty, vis |-> "inherited"]

\* syn::Fields: Named { .. }, Unnamed ( .. ) or Unit.
Fields(shape, list) == [shape |-> shape, list |-> list]

\* syn::Variant
Variant(ident, fields) == [ident |-> ident, fields |-> fields]

\* The variants of the enums in the crate's test and in the macro's doc
\* example, and a unit variant.
SampleVariants ==
    {Variant("A", Fields("Named", <<Field("a", "i32"), Field("b", "String")>>)),
     Variant("B", Fields("Named", <<Field("horse", "usize")>>)),
     Variant("Bar", Fields("Unnamed", <<Field("", "u32"), Field("", "u32")>>)),
     Variant("Unit", Fields("Unit", <<>>))}

VariantLists == UNION {[1..n -> SampleVariants] : n \in 0..MaxVariants}

\* The attributes the derive input carries: none, or the ones of the test.
AttrLists ==
    {<<>>, <<"#[rustfmt::ignore]", "#[derive(Clone, Debug, PartialEq, Eq)]">>}

\* syn::DeriveInput: attrs, generics (is there a `<`), data (enum with its
\* variants, struct or union; the macro reads nothing else of a struct or
\* union).
DeriveInput(attrs, lt_token, kind, variants) ==
    [kind |-> kind, attrs |-> attrs, lt_token |-> lt_token,
     variants |-> variants]

DeriveInputs ==
    {DeriveInput(at, lt, "Enum", vs) :
        at \in AttrLists, lt \in BOOLEAN, vs \in VariantLists}
        \cup {DeriveInput(at, lt, k, <<>>) :
                at \in AttrLists, lt \in BOOLEAN, k \in {"Struct", "Union"}}

\* Error::new(span, msg).into_compile_error(): the only item of the output.
CompileError(msg) == [tag |-> "compile_error", msg |-> msg]

\* The field with `vis` replaced by `pub`, the rest kept (..field).
PubField(field) == [ident |-> field.ident, ty |-> field.ty, vis |-> "pub"]

PubFields(list) == [j \in 1..Len(list) |-> PubField(list[j])]

\* The struct generated for a variant: the closure of variant_structs.
VariantStruct(attrs, v) ==
    CASE v.fields.shape = "Named" ->
            [tag |-> "struct", ident |-> v.ident, vis |-> "pub",
             shape |-> "Named", list |-> PubFields(v.fields.list),
             attrs |-> attrs]
      [] v.fields.shape = "Unnamed" ->
            [tag |-> "struct", ident |-> v.ident, vis |-> "pub",
             shape |-> "Unnamed", list |-> PubFields(v.fields.list),
             attrs |-> attrs]
      [] v.fields.shape = "Unit" ->
            [tag |-> "struct", ident |-> v.ident, vis |-> "pub",
             shape |-> "Unit", list |-> <<>>,
             attrs |-> attrs]

\* derive_wire_obj accepting an enum with generics.
DeriveWireObj_AllowGenerics(input) ==
    IF input.kind # "Enum"
    THEN <<CompileError("wire only works on enums")>>
    ELSE [i \in 1..Len(input.variants) |->
              VariantStruct(input.attrs, input.variants[i])]

\* derive_wire_obj: the items of the TokenStream it returns.
DeriveWireObj(input) ==
    IF input.kind # "Enum"
    THEN <<CompileError("wire only works on enums")>>
    ELSE IF input.lt_token
    THEN <<CompileError("wire does not support generics")>>
    ELSE [i \in 1..Len(input.variants) |->
              VariantStruct(input.attrs, input.variants[i])]

\* -------------------------------------------------------------------- state
VARIABLES
    target,     \* the Target the client holds
    deduced,    \* TRUE when `target` comes from a deducing constructor,
                \* possibly followed by for_all() calls
    panicked,   \* TRUE once a call has panicked: the client is gone
    call,       \* the last call: its operation, arguments and return value;
                \* NoCall once the client has dropped the returned value
    counter,    \* the identifier pool's counter
    minted      \* the targets the pool has returned, in order

vars == <<target, deduced, panicked, call, counter, minted>>

NoCall == [op |-> "none"]

\* The client is running and holds no returned value: it may make a call.
Ready == ~panicked /\ call = NoCall

DeducingOps == {"Target::new", "From<(UserId, SessionId)>", "From<Connected>",
                "From<Disconnected>", "From<FirstConnected>"}

Init ==
    \E u \in UserIds, s \in SessionIds :
        /\ target = TargetNew(u, s)
        /\ deduced = TRUE
        /\ panicked = FALSE
        /\ call = [user_id |-> u, session_id |-> s, op |-> "Target::new",
                   ret |-> TargetNew(u, s)]
        /\ counter = 1
        /\ minted = <<>>

\* A constructor call: the client keeps the Target it returns.
Construct(op, u, s, t) ==
    /\ Ready
    /\ target' = t
    /\ deduced' = TRUE
    /\ call' = [user_id |-> u, session_id |-> s, op |-> op, ret |-> t]
    /\ UNCHANGED <<panicked, counter, minted>>

CallTargetNew ==
    \E u \in UserIds, s \in SessionIds :
        Construct("Target::new", u, s, TargetNew(u, s))

CallFromTuple ==
    \E u \in UserIds, s \in SessionIds :
        Construct("From<(UserId, SessionId)>", u, s, FromTuple(<<u, s>>))

CallFromConnected ==
    \E u \in UserIds, s \in SessionIds :
        Construct("From<Connected>", u, s, FromConnected(ConnectedNew(u, s)))

CallFromDisconnected ==
    \E u \in UserIds, s \in SessionIds :
        Construct("From<Disconnected>", u, s,
                  FromDisconnected(DisconnectedNew(u, s)))

CallFromFirstConnected ==
    \E u \in UserIds, s \in SessionIds :
        Construct("From<FirstConnected>", u, s,
                  FromFirstConnected(FirstConnectedNew(u, s)))

\* AuthTarget -> Target, the non-deducing conversion.
CallAuthTargetIntoTarget ==
    /\ Ready
    /\ \E a \in AuthTargetValues :
           /\ target' = AuthTargetIntoTarget(a)
           /\ deduced' = FALSE
           /\ call' = [auth |-> a, op |-> "AuthTarget::into<Target>",
                       ret |-> AuthTargetIntoTarget(a)]
           /\ UNCHANGED <<panicked, counter, minted>>

\* target.for_all(): the client keeps the widened Target, or panics.
CallForAll ==
    /\ Ready
    /\ call' = [self |-> target, op |-> "Target::for_all",
                ret |-> ForAll(target)]
    /\ IF ForAll(target).tag = "Panic"
       THEN panicked' = TRUE /\ UNCHANGED <<target, deduced, counter, minted>>
       ELSE target' = ForAll(target) /\ UNCHANGED <<panicked, deduced, counter, minted>>

\* target.weak_eq(&other), and other.weak_eq(&target).
CallWeakEq ==
    /\ Ready
    /\ \E other \in TargetValues :
           /\ call' = [self |-> target, other |-> other,
                       op |-> "Target::weak_eq",
                       ret |-> WeakEq(target, other),
                       flipped |-> WeakEq(other, target)]
           /\ UNCHANGED <<target, deduced, panicked, counter, minted>>

CallId ==
    /\ Ready
    /\ call' = [self |-> target, op |-> "Target::id", ret |-> TargetId(target)]
    /\ UNCHANGED <<target, deduced, panicked, counter, minted>>

CallIsAnon ==
    /\ Ready
    /\ call' = [self |-> target, op |-> "Target::is_anon",
                ret |-> IsAnon(target)]
    /\ UNCHANGED <<target, deduced, panicked, counter, minted>>

CallIsAuth ==
    /\ Ready
    /\ call' = [self |-> target, op |-> "Target::is_auth",
                ret |-> IsAuth(target)]
    /\ UNCHANGED <<target, deduced, panicked, counter, minted>>

\* ---- coercions into Targets
CallTargetIntoTargets ==
    /\ Ready
    /\ call' = [self |-> target, op |-> "Target::into<Targets>",
                ret |-> TargetIntoTargets(target)]
    /\ UNCHANGED <<target, deduced, panicked, counter, minted>>

CallVecTargetIntoTargets ==
    /\ Ready
    /\ \E v \in Vecs(TargetValues) :
           /\ call' = [self |-> v, op |-> "Vec<Target>::into<Targets>",
                       ret |-> VecTargetIntoTargets(v)]
           /\ UNCHANGED <<target, deduced, panicked, counter, minted>>

CallAuthTargetIntoTargets ==
    /\ Ready
    /\ \E a \in AuthTargetValues :
           /\ call' = [self |-> a, op |-> "AuthTarget::into<Targets>",
                       ret |-> AuthTargetIntoTargets(a)]
           /\ UNCHANGED <<target, deduced, panicked, counter, minted>>

CallVecAuthTargetIntoTargets ==
    /\ Ready
    /\ \E v \in Vecs(AuthTargetValues) :
           /\ call' = [self |-> v, op |-> "Vec<AuthTarget>::into<Targets>",
                       ret |-> VecAuthTargetIntoTargets(v)]
           /\ UNCHANGED <<target, deduced, panicked, counter, minted>>

\* ---- envelopes
\* A request from the held target arrives.
CallReqNew ==
    /\ Ready
    /\ \E a \in Payloads, c \in CorrIds :
           /\ call' = [from |-> target, action |-> a, corrid |-> c,
                       op |-> "Req::new", ret |-> ReqNew(target, a, c)]
           /\ UNCHANGED <<target, deduced, panicked, counter, minted>>

\* The request just built fails downstream: the directed error for it is
\* Error::new(req.from, e, req.corrid).
CallErrorNew ==
    /\ ~panicked
    /\ call.op = "Req::new"
    /\ \E e \in Payloads :
        /\ call' = [from |-> call.from, corrid |-> call.corrid,
                    error |-> e, op |-> "Error::new",
                    ret |-> ErrorNew(call.ret.from, e, call.ret.corrid),
                    req |-> call.ret]
        /\ UNCHANGED <<target, deduced, panicked, counter, minted>>

\* Req == Req, the left one from the held target.
CallReqEq ==
    /\ Ready
    /\ \E a \in Payloads, c \in CorrIds,
          f \in TargetValues, b \in Payloads, d \in CorrIds :
           /\ call' = [self |-> ReqNew(target, a, c), other |-> ReqNew(f, b, d),
                       op |-> "Req::eq",
                       ret |-> ReqEq(ReqNew(target, a, c), ReqNew(f, b, d))]
           /\ UNCHANGED <<target, deduced, panicked, counter, minted>>

\* Error == Error, the left one to the held target.
CallErrorEq ==
    /\ Ready
    /\ \E a \in Payloads, c \in CorrIds,
          f \in TargetValues, b \in Payloads, d \in CorrIds :
           /\ call' = [self |-> ErrorNew(target, a, c),
                       other |-> ErrorNew(f, b, d),
                       op |-> "Error::eq",
                       ret |-> ErrorEq(ErrorNew(target, a, c),
                                       ErrorNew(f, b, d))]
           /\ UNCHANGED <<target, deduced, panicked, counter, minted>>

\* The Targets a Res is addressed to: all, nobody, one target, or several.
ResTargets(t) ==
    {TargetsAll, Few(<<>>), TargetIntoTargets(t), Few(<<t, t>>)}

\* Res == Res, the left one addressed with the held target.
CallResEq ==
    /\ Ready
    /\ \E ts \in ResTargets(target), e \in Payloads, now \in Timestamps,
          f \in TargetValues, g \in Payloads, later \in Timestamps :
           \E us \in ResTargets(f) :
               /\ call' = [self |-> ResNew(ts, e, now),
                           other |-> ResNew(us, g, later),
                           op |-> "Res::eq",
                           ret |-> ResEq(ResNew(ts, e, now),
                                         ResNew(us, g, later))]
               /\ UNCHANGED <<target, deduced, panicked, counter, minted>>

\* ---- bincode
\* bincode::encode_to_vec(&req, config) for a request from the held target.
CallReqEncode ==
    /\ Ready
    /\ \E cfg \in IntEncodings, a \in Payloads, c \in CorrIds :
           /\ call' = [self |-> ReqNew(target, a, c), op |-> "Req::encode",
                       ret |-> ReqEncode(cfg, ReqNew(target, a, c)),
                       config |-> cfg]
           /\ UNCHANGED <<target, deduced, panicked, counter, minted>>

\* bincode::decode_from_slice(&bytes, config) of the bytes just encoded.
CallReqDecode ==
    /\ ~panicked
    /\ call.op = "Req::encode"
    /\ call' = [bytes |-> call.ret, op |-> "Req::decode",
                ret |-> ReqDecode(call.config, call.ret),
                config |-> call.config,
                encoded |-> call.self]
    /\ UNCHANGED <<target, deduced, panicked, counter, minted>>

\* ---- bincode of AuthTarget and Target
CallAuthTargetEncode ==
    /\ Ready
    /\ \E cfg \in IntEncodings, a \in AuthTargetValues :
           /\ call' = [self |-> a, op |-> "AuthTarget::encode",
                       ret |-> AuthTargetEncode(cfg, a), config |-> cfg]
           /\ UNCHANGED <<target, deduced, panicked, counter, minted>>

\* The bytes just encoded are decoded, with Decode and with BorrowDecode.
CallAuthTargetDecodeEncoded ==
    /\ ~panicked
    /\ call.op = "AuthTarget::encode"
    /\ call' = [bytes |-> call.ret, op |-> "decode(encode(AuthTarget))",
                ret |-> AuthTargetDecode(call.config, call.ret),
                config |-> call.config, encoded |-> call.self,
                borrow |-> AuthTargetBorrowDecode(call.config, call.ret)]
    /\ UNCHANGED <<target, deduced, panicked, counter, minted>>

\* Any bytes are decoded, with Decode and with BorrowDecode.
CallAuthTargetDecode ==
    /\ Ready
    /\ \E cfg \in IntEncodings :
         \E bytes \in DecodeInputs(cfg) :
           /\ call' = [bytes |-> bytes, op |-> "AuthTarget::decode",
                       ret |-> AuthTargetDecode(cfg, bytes),
                       config |-> cfg,
                       borrow |-> AuthTargetBorrowDecode(cfg, bytes)]
           /\ UNCHANGED <<target, deduced, panicked, counter, minted>>

\* The Target the client holds is encoded.
CallTargetEncode ==
    /\ Ready
    /\ \E cfg \in IntEncodings :
           /\ call' = [self |-> target, op |-> "Target::encode",
                       ret |-> TargetEncode(cfg, target), config |-> cfg]
           /\ UNCHANGED <<target, deduced, panicked, counter, minted>>

CallTargetDecodeEncoded ==
    /\ ~panicked
    /\ call.op = "Target::encode"
    /\ call' = [bytes |-> call.ret, op |-> "decode(encode(Target))",
                ret |-> TargetDecode(call.config, call.ret),
                config |-> call.config, encoded |-> call.self]
    /\ UNCHANGED <<target, deduced, panicked, counter, minted>>

\* ---- derive(WireObj)
\* The compiler expands #[derive(WireObj)] on an item.
CallDeriveWireObj ==
    /\ Ready
    /\ \E input \in DeriveInputs :
           /\ call' = [self |-> input, op |-> "derive(WireObj)",
                       ret |-> DeriveWireObj(input)]
           /\ UNCHANGED <<target, deduced, panicked, counter, minted>>

\* The client drops the value the last call returned.
Discard ==
    /\ ~panicked
    /\ call # NoCall
    /\ call' = NoCall
    /\ UNCHANGED <<target, deduced, panicked, counter, minted>>

Next ==
    \/ Discard
    \/ CallTargetNew
    \/ CallFromTuple
    \/ CallFromConnected
    \/ CallFromDisconnected
    \/ CallFromFirstConnected
    \/ CallAuthTargetIntoTarget
    \/ CallForAll
    \/ CallWeakEq
    \/ CallId
    \/ CallIsAnon
    \/ CallIsAuth
    \/ CallTargetIntoTargets
    \/ CallVecTargetIntoTargets
    \/ CallAuthTargetIntoTargets
    \/ CallVecAuthTargetIntoTargets
    \/ CallReqNew
    \/ CallErrorNew
    \/ CallReqEq
    \/ CallErrorEq
    \/ CallResEq
    \/ CallReqEncode
    \/ CallReqDecode
    \/ CallDeriveWireObj
    \/ CallAuthTargetEncode
    \/ CallAuthTargetDecodeEncoded
    \/ CallAuthTargetDecode
    \/ CallTargetEncode
    \/ CallTargetDecodeEncoded

Spec == Init /\ [][Next]_vars

\* ---------------------------------------------------------- identifier pool
\* The pool mints at most MaxMint targets.
MaxMint == 4

\* The optional third addressing mode, a bot addressed by its own id.
Bot(bot_id) == [tag |-> "Bot", bot_id |-> bot_id]

\* The user id minted from the counter value n: the 128-bit value n.
PoolUserId(n) == <<0, 0, 0, 0, 0, 0, 0, 0, 0, 0, 0, 0, 0, 0, 0, n>>

\* pool.next_anon(): the anonymous target of the session numbered by the
\* counter.
NextAnon ==
    /\ counter <= MaxMint
    /\ minted' = Append(minted, Anon(counter))
    /\ counter' = counter + 1
    /\ UNCHANGED <<target, deduced, panicked, call>>

\* pool.next_auth(): an authenticated target of the user numbered by the
\* counter, broad or of some session.
NextAuth ==
    /\ counter <= MaxMint
    /\ \E a \in {All(PoolUserId(counter))}
                \cup {Specific(PoolUserId(counter), s) : s \in SessionIds} :
           minted' = Append(minted, Auth(a))
    /\ counter' = counter + 1
    /\ UNCHANGED <<target, deduced, panicked, call>>

\* pool.next_bot(): the bot numbered by the counter.
NextBot ==
    /\ counter <= MaxMint
    /\ minted' = Append(minted, Bot(counter))
    /\ counter' = counter + 1
    /\ UNCHANGED <<target, deduced, panicked, call>>

PoolNext ==
    \/ NextAnon
    \/ NextAuth
    \/ NextBot

\* A fresh pool and the calls made on it.
PoolSpec == Init /\ [][PoolNext]_vars

\* ------------------------------------------------------------ claims C1-C6

\* C1: Target::new(user_id, session_id) returns Anon(session_id) when user_id
\* is ANON_USER_ID and Auth(Specific(user_id, session_id)) for every other
\* user_id.
C1_NewDeduces ==
    call.op = "Target::new" =>
        /\ call.user_id = ANON_USER_ID =>
              call.ret = [tag |-> "Anon", session_id |-> call.session_id]
        /\ call.user_id # ANON_USER_ID =>
              call.ret = [tag |-> "Auth",
                          auth |-> [user_id |-> call.user_id,
                                    tag |-> "Specific",
                                    session_id |-> call.session_id]]

C1_Witness ==
    /\ call.op = "Target::new"
    /\ call.user_id # ANON_USER_ID
    /\ call.ret.tag = "Auth"

\* C2: a Target made by a deducing path (Target::new, From<(UserId,
\* SessionId)>, From<Connected>, From<Disconnected>, From<FirstConnected>),
\* also after any number of for_all() calls, is never Auth with the anonymous
\* user id; the anonymous sentinel always yields Anon; and every deducing path
\* returns what Target::new returns for the same input.
C2_DeducedNeverAnonAuth ==
    /\ (deduced /\ target.tag = "Auth") => target.auth.user_id # ANON_USER_ID
    /\ call.op \in DeducingOps =>
          /\ call.user_id = ANON_USER_ID => call.ret.tag = "Anon"
          /\ call.ret.tag = "Auth" => call.ret.auth.user_id # ANON_USER_ID
          /\ call.ret = TargetNew(call.user_id, call.session_id)

C2_Witness ==
    /\ deduced
    /\ call.op = "Target::for_all"
    /\ call.self.tag = "Auth"
    /\ call.self.auth.tag = "All"
    /\ target.tag = "Auth"

\* C3: a.weak_eq(b) is true exactly when both are Anon with the same session
\* id, or both are Auth with the same user id (All or Specific, any session
\* ids); Anon against Auth is always false.
C3_WeakEqExactly ==
    call.op = "Target::weak_eq" =>
        LET a == call.self
            b == call.other
        IN  call.ret <=>
                \/ /\ a.tag = "Anon"
                   /\ b.tag = "Anon"
                   /\ a.session_id = b.session_id
                \/ /\ a.tag = "Auth"
                   /\ b.tag = "Auth"
                   /\ a.auth.user_id = b.auth.user_id

C3_Witness ==
    /\ call.op = "Target::weak_eq"
    /\ call.self.tag = "Auth"
    /\ call.other.tag = "Auth"
    /\ call.self.auth.tag = "Specific"
    /\ call.other.auth.tag = "All"
    /\ call.ret = TRUE

\* C4: weak_eq is reflexive and symmetric; Target::new(U, s1).weak_eq(
\* Target::new(U, s2)) is true for every non-anonymous U and sessions
\* s1 # s2, and Anon(s1).weak_eq(Anon(s2)) is false for s1 # s2.
C4_WeakEqReflSym ==
    call.op = "Target::weak_eq" =>
        /\ call.ret = call.flipped
        /\ call.self = call.other => call.ret = TRUE
        /\ \A u \in UserIds \ {ANON_USER_ID}, s1, s2 \in SessionIds :
              (call.self = TargetNew(u, s1) /\ call.other = TargetNew(u, s2))
                  => call.ret = TRUE
        /\ \A s1, s2 \in SessionIds :
              (s1 # s2 /\ call.self = Anon(s1) /\ call.other = Anon(s2))
                  => call.ret = FALSE

C4_Witness ==
    /\ call.op = "Target::weak_eq"
    /\ call.self.tag = "Auth"
    /\ call.other.tag = "Auth"
    /\ call.self.auth.tag = "Specific"
    /\ call.other.auth.tag = "Specific"
    /\ call.self.auth.user_id = call.other.auth.user_id
    /\ call.self.auth.session_id # call.other.auth.session_id
    /\ call.ret = TRUE
    /\ call.flipped = TRUE

\* C5: for an authenticated Target t, t.for_all() is Auth(All(u)) for t's
\* user u: the user id is kept, the session id is dropped, the result is
\* weak_eq to t, and for_all() of the result is the result.
C5_ForAllWidens ==
    (call.op = "Target::for_all" /\ call.self.tag = "Auth") =>
        /\ call.ret = [tag |-> "Auth",
                       auth |-> [user_id |-> call.self.auth.user_id,
                                 tag |-> "All"]]
        /\ TargetId(call.ret) = TargetId(call.self)
        /\ WeakEq(call.ret, call.self)
        /\ ForAll(call.ret) = call.ret
        /\ target = call.ret

C5_Witness ==
    /\ call.op = "Target::for_all"
    /\ call.self.tag = "Auth"
    /\ call.self.auth.tag = "Specific"
    /\ call.ret.tag = "Auth"
    /\ call.ret.auth.tag = "All"

TargetOpsReturningTarget == DeducingOps \cup {"AuthTarget::into<Target>"}

TargetOpsReturningBool == {"Target::weak_eq", "Target::is_anon", "Target::is_auth"}

\* C6: for_all() on an Anon target panics and returns no Target, and it is the
\* only call that fails: Target::new, the conversions, id(), weak_eq(),
\* is_anon() and is_auth() return a value for every input; id() is
\* ANON_USER_ID for Anon and the carried user id for Auth; exactly one of
\* is_anon() / is_auth() is true.
C6_ForAllOnlyFailure ==
    /\ (call.op = "Target::for_all" /\ call.self.tag = "Anon") =>
          /\ call.ret.tag = "Panic"
          /\ panicked
          /\ target = call.self
    /\ panicked => (call.op = "Target::for_all" /\ call.self.tag = "Anon")
    /\ call.op \in TargetOpsReturningTarget => call.ret \in TargetValues
    /\ call.op \in TargetOpsReturningBool => call.ret \in BOOLEAN
    /\ call.op = "Target::id" =>
          /\ call.ret \in UserIds
          /\ call.self.tag = "Anon" => call.ret = ANON_USER_ID
          /\ call.self.tag = "Auth" => call.ret = call.self.auth.user_id
    /\ call.op = "Target::is_anon" =>
          /\ call.ret = (call.self.tag = "Anon")
          /\ call.ret # IsAuth(call.self)
    /\ call.op = "Target::is_auth" =>
          /\ call.ret = (call.self.tag = "Auth")
          /\ call.ret # IsAnon(call.self)

C6_Witness ==
    /\ panicked
    /\ call.op = "Target::for_all"
    /\ call.self.tag = "Anon"
    /\ call.ret.tag = "Panic"

\* ----------------------------------------------------------- claims C7-C10

\* C7 (as stated): two envelopes of the same type are equal if and only if
\* every field is equal: Req on (from, action, corrid), Error on (to, error,
\* corrid), Res on (targets, event) with event the whole TimestampedEvent
\* {timestamp, event}, so two Res that differ in the timestamp are unequal.
C7_EqualIffEveryFieldEqual ==
    /\ call.op = "Req::eq" =>
          (call.ret <=> /\ call.self.from = call.other.from
                        /\ call.self.action = call.other.action
                        /\ call.self.corrid = call.other.corrid)
    /\ call.op = "Error::eq" =>
          (call.ret <=> /\ call.self.to = call.other.to
                        /\ call.self.error = call.other.error
                        /\ call.self.corrid = call.other.corrid)
    /\ call.op = "Res::eq" =>
          (call.ret <=> /\ call.self.targets = call.other.targets
                        /\ call.self.event.timestamp = call.other.event.timestamp
                        /\ call.self.event.event = call.other.event.event)

\* C7 (amended): Req is equal on (from, action, corrid) and Error on (to,
\* error, corrid), field by field; Res is equal on (targets, event.event): the
\* timestamp of the TimestampedEvent is not compared, so two Res that differ
\* only in the timestamp are equal.
C7_EqualIffFieldsButTimestamp ==
    /\ call.op = "Req::eq" =>
          (call.ret <=> /\ call.self.from = call.other.from
                        /\ call.self.action = call.other.action
                        /\ call.self.corrid = call.other.corrid)
    /\ call.op = "Error::eq" =>
          (call.ret <=> /\ call.self.to = call.other.to
                        /\ call.self.error = call.other.error
                        /\ call.self.corrid = call.other.corrid)
    /\ call.op = "Res::eq" =>
          (call.ret <=> /\ call.self.targets = call.other.targets
                        /\ call.self.event.event = call.other.event.event)

C7_Witness ==
    /\ call.op = "Res::eq"
    /\ call.self.targets = call.other.targets
    /\ call.self.targets.tag = "Few"
    /\ call.self.event.event = call.other.event.event
    /\ call.self.event.timestamp # call.other.event.timestamp
    /\ call.ret = TRUE

\* C8: the bincode encoding of a Req round-trips: encode writes from, action,
\* corrid in that order, and decoding the bytes encode produced succeeds,
\* gives a Req equal to the encoded one field by field, and leaves no byte.
C8_ReqRoundTrip ==
    /\ call.op = "Req::encode" =>
          call.ret = TargetEncode(call.config, call.self.from)
                         \o EncodeU8(call.self.action)
                         \o EncodeU64(call.config, call.self.corrid)
    /\ call.op = "Req::decode" =>
          /\ call.ret.ok
          /\ call.ret.val.from = call.encoded.from
          /\ call.ret.val.action = call.encoded.action
          /\ call.ret.val.corrid = call.encoded.corrid
          /\ call.ret.rest = <<>>

\* C9: the directed error built for a failed request Req{from: F, action,
\* corrid: C} with Error::new(F, e, C) has to = F and corrid = C: Req::new and
\* Error::new store the target and the correlation id unchanged.
C9_ErrorMatchesRequest ==
    /\ call.op = "Req::new" =>
          /\ call.ret.from = call.from
          /\ call.ret.action = call.action
          /\ call.ret.corrid = call.corrid
    /\ call.op = "Error::new" =>
          /\ call.ret.to = call.from
          /\ call.ret.corrid = call.corrid
          /\ call.ret.to = call.req.from
          /\ call.ret.corrid = call.req.corrid
          /\ call.ret.error = call.error

C9_Witness ==
    /\ call.op = "Error::new"
    /\ call.req.from.tag = "Anon"
    /\ call.req.corrid # 0
    /\ call.ret.to = call.req.from
    /\ call.ret.corrid = call.req.corrid

CoercionsIntoTargets ==
    {"Target::into<Targets>", "Vec<Target>::into<Targets>",
     "AuthTarget::into<Targets>", "Vec<AuthTarget>::into<Targets>"}

\* C10: the coercions deduce and drop nothing: a Target t becomes Few([t]); an
\* AuthTarget a becomes Target::Auth(a), also with ANON_USER_ID, and
\* Few([Auth(a)]); a Vec<Target> or Vec<AuthTarget> becomes Few with the same
\* length, order and duplicates; none yields Targets::All; an empty list
\* yields Few([]), which differs from All and from every non-empty Few.
C10_CoercionsKeepEverything ==
    /\ call.op = "Target::into<Targets>" =>
          call.ret = [tag |-> "Few", targets |-> <<call.self>>]
    /\ call.op = "AuthTarget::into<Target>" =>
          call.ret = [tag |-> "Auth", auth |-> call.auth]
    /\ call.op = "AuthTarget::into<Targets>" =>
          call.ret = [tag |-> "Few",
                      targets |-> <<[tag |-> "Auth", auth |-> call.self]>>]
    /\ call.op = "Vec<Target>::into<Targets>" =>
          call.ret = [tag |-> "Few", targets |-> call.self]
    /\ call.op = "Vec<AuthTarget>::into<Targets>" =>
          /\ call.ret.tag = "Few"
          /\ Len(call.ret.targets) = Len(call.self)
          /\ \A i \in 1..Len(call.self) :
                call.ret.targets[i] = [tag |-> "Auth", auth |-> call.self[i]]
    /\ call.op \in CoercionsIntoTargets =>
          /\ call.ret.tag # "All"
          /\ ~TargetsEq(call.ret, TargetsAll)
    /\ (call.op \in {"Vec<Target>::into<Targets>",
                     "Vec<AuthTarget>::into<Targets>"} /\ call.self = <<>>) =>
          /\ call.ret = [tag |-> "Few", targets |-> <<>>]
          /\ \A v \in Vecs(TargetValues) \ {<<>>} :
                ~TargetsEq(call.ret, Few(v)) /\ ~TargetsEq(Few(v), call.ret)

C10_Witness ==
    /\ call.op = "Vec<AuthTarget>::into<Targets>"
    /\ Len(call.self) = 2
    /\ call.self[1] = call.self[2]
    /\ call.self[1].tag = "Specific"
    /\ call.self[1].user_id = ANON_USER_ID
    /\ call.ret.targets[1].tag = "Auth"
    /\ call.ret.targets[2] = call.ret.targets[1]

\* ---------------------------------------------------------- claims C11-C14

\* C11: derive(WireObj) on an enum without generics produces exactly one
\* struct per variant, in variant order, with the variant's name, the same
\* field shape (named, positional, unit), the same field names and types,
\* every field public, and the enum's attribute list on each struct; on a
\* non-enum input or an enum with generics it produces a compile error and no
\* struct.
C11_OneStructPerVariant ==
    call.op = "derive(WireObj)" =>
        LET input == call.self
            out == call.ret
        IN  IF input.kind = "Enum" /\ ~input.lt_token
            THEN /\ Len(out) = Len(input.variants)
                 /\ \A i \in 1..Len(input.variants) :
                       /\ out[i].tag = "struct"
                       /\ out[i].ident = input.variants[i].ident
                       /\ out[i].shape = input.variants[i].fields.shape
                       /\ out[i].attrs = input.attrs
                       /\ Len(out[i].list) = Len(input.variants[i].fields.list)
                       /\ \A j \in 1..Len(out[i].list) :
                             /\ out[i].list[j].ident
                                    = input.variants[i].fields.list[j].ident
                             /\ out[i].list[j].ty
                                    = input.variants[i].fields.list[j].ty
                             /\ out[i].list[j].vis = "pub"
            ELSE /\ Len(out) = 1
                 /\ out[1].tag = "compile_error"

C11_Witness ==
    /\ call.op = "derive(WireObj)"
    /\ call.self.kind = "Enum"
    /\ ~call.self.lt_token
    /\ call.self.attrs # <<>>
    /\ Len(call.self.variants) = 2
    /\ call.self.variants[1].fields.shape = "Named"
    /\ call.self.variants[2].fields.shape = "Unnamed"
    /\ Len(call.ret) = 2
    /\ call.ret[2].tag = "struct"

C13_AuthTargetRoundTrip ==
    /\ call.op = "decode(encode(AuthTarget))" =>
          /\ call.bytes
                = (IF call.encoded.tag = "All"
                   THEN EncodeU8(0) \o EncodeBytes16(call.encoded.user_id)
                   ELSE EncodeU8(1) \o EncodeBytes16(call.encoded.user_id)
                            \o EncodeU32(call.config, call.encoded.session_id))
          /\ call.ret = Ok(call.encoded, <<>>)
    /\ call.op = "decode(encode(Target))" =>
          call.ret = Ok(call.encoded, <<>>)

\* C14: decoding an AuthTarget from bytes whose discriminant is neither 0 nor
\* 1 returns UnexpectedVariant with the AuthTarget type name, the allowed
\* range 0..=1 and the discriminant found, never an AuthTarget; Decode and
\* BorrowDecode return the same result for every input.
C14_UnknownDiscriminantRejected ==
    call.op \in {"AuthTarget::decode", "decode(encode(AuthTarget))"} =>
        /\ call.ret = call.borrow
        /\ (Len(call.bytes) > 0 /\ call.bytes[1] \notin {0, 1}) =>
              /\ ~call.ret.ok
              /\ call.ret.err
                    = UnexpectedVariant("wire::target::AuthTarget", 0, 1,
                                        call.bytes[1])

C14_Witness ==
    /\ call.op = "AuthTarget::decode"
    /\ Len(call.bytes) > UuidLen
    /\ call.bytes[1] = 3
    /\ ~call.ret.ok
    /\ call.ret.err.kind = "UnexpectedVariant"
    /\ call.ret.err.found = 3

====
